---- MODULE Spec2Model ----
(***************************************************************************)
(* AzureBlobStorageConnector: the two connector modules of the repository  *)
(* (azure_blob_utils/connector.py and the older top-level connector.py),   *)
(* the remote container they talk to, the local file system, and the       *)
(* BytesIO stream that the scoped operations hand to the caller.           *)
(***************************************************************************)
EXTENDS Integers, Sequences, FiniteSets, TLC

\* ------------------------------------------------------------------ bounds
MaxLen == 2

Byte == {0, 1}
BlobPaths == {"a.csv", "b.csv"}
LocalPaths == {"report.csv"}
Impls == {"azure_blob_utils", "connector"}

Data == UNION {[1..n -> Byte] : n \in 0..MaxLen}

\* the mode strings a caller passes to open(), as sequences of characters
Modes == {<<"r">>, <<"w">>, <<"o">>, <<"R">>, <<"W">>, <<"O">>,
          <<"x">>, <<>>, <<"r", "w">>}

\* ------------------------------------------------- external collaborators
\* a blob of the container / a file of the local file system
Missing == [exists |-> FALSE, data |-> <<>>]
Stored(d) == [exists |-> TRUE, data |-> d]

NoErr == [type |-> "none", arg |-> <<>>]
Error(t) == [type |-> t, arg |-> <<>>]

\* io.BytesIO(): content, cursor, number of close() calls
BytesIO == [buf |-> <<>>, pos |-> 0, closes |-> 0]

seek(s, k) == [s EXCEPT !.pos = k]

close(s) == [s EXCEPT !.closes = @ + 1]

\* stream.write(bytes([b])) at the cursor: overwrite or append
write(s, b) ==
    [s EXCEPT !.buf = IF s.pos < Len(s.buf)
                        THEN [s.buf EXCEPT ![s.pos + 1] = b]
                        ELSE Append(s.buf, b),
              !.pos = s.pos + 1]

\* StorageStreamDownloader.readinto(stream): the blob is written at the cursor
readinto(d, s) ==
    [s EXCEPT !.buf = SubSeq(s.buf, 1, s.pos) \o d, !.pos = s.pos + Len(d)]

\* what a reader gets from the cursor to the end of the stream
Rest(s) == SubSeq(s.buf, s.pos + 1, Len(s.buf))

\* BlobClient.upload_blob(stream, blob_type="BlockBlob", overwrite=ow):
\* sends the stream from its cursor to its end; an existing blob is replaced
\* only with overwrite
sdk_upload_blob(rem, p, s, ow) ==
    [remote |-> IF rem[p].exists /\ ~ow THEN rem
                ELSE [rem EXCEPT ![p] = Stored(Rest(s))],
     stream |-> seek(s, Len(s.buf)),
     err    |-> IF rem[p].exists /\ ~ow THEN Error("ResourceExistsError")
                ELSE NoErr]

\* ---------------------------------------------------------- module scope
\* the names bound at module level (imports, assignments, the class)
ModuleNames(i) ==
    IF i = "azure_blob_utils"
      THEN {"BinaryIO", "Optional", "Generator", "contextmanager", "BytesIO",
            "DefaultAzureCredential", "ContainerClient",
            "StorageStreamDownloader", "DEFAULT_CREDENTIAL",
            "AzureBlobStorageConnector"}
      ELSE {"BinaryIO", "contextmanager", "BytesIO",
            "InteractiveBrowserCredential", "ContainerClient",
            "StorageStreamDownloader", "AzureBlobStorageConnector"}

\* logger.debug(...): the name logger is looked up when the line runs
logger_debug(i) == IF "logger" \in ModuleNames(i) THEN NoErr ELSE Error("NameError")

\* str.lower()
LowerChar(c) ==
    CASE c = "R" -> "r" [] c = "W" -> "w" [] c = "O" -> "o" [] c = "X" -> "x"
      [] OTHER -> c

lower(m) == [k \in 1..Len(m) |-> LowerChar(m[k])]

\* ------------------------------------------------------ the connector code
\* the overwrite argument as the caller writes it
OwArgs == {"omitted", "False", "True"}

\* what one run of a generator (to its yield, or from it to its end) leaves
Step(rem, s, e, n, y) ==
    [remote |-> rem, stream |-> s, err |-> e, net |-> n, yielded |-> y]

\* download_stream yielding a stream the blob was never read into
download_stream_body_unread(rem, p) ==
    IF rem[p].exists
      THEN Step(rem, BytesIO, NoErr, 1, TRUE)
      ELSE Step(rem, BytesIO, Error("ResourceNotFoundError"), 1, FALSE)

\* download_stream rewinding the stream before it yields
download_stream_body_rewound(rem, p) ==
    IF rem[p].exists
      THEN Step(rem, seek(readinto(rem[p].data, BytesIO), 0), NoErr, 1, TRUE)
      ELSE Step(rem, BytesIO, Error("ResourceNotFoundError"), 1, FALSE)

\* download_stream up to its yield
download_stream_body(rem, p) ==
    IF rem[p].exists
      THEN Step(rem, readinto(rem[p].data, BytesIO), NoErr, 1, TRUE)
      ELSE Step(rem, BytesIO, Error("ResourceNotFoundError"), 1, FALSE)

\* download_stream after its yield, the with block having ended normally
download_stream_resume(i, rem, s) ==
    IF logger_debug(i) # NoErr
      THEN Step(rem, s, logger_debug(i), 0, FALSE)
      ELSE Step(rem, close(s), NoErr, 0, FALSE)

\* download_stream when the with block raised: the exception is thrown in at
\* the yield and nothing encloses it
download_stream_throw(rem, s, e) == Step(rem, s, e, 0, FALSE)

\* upload_stream up to its yield; the top-level connector has no default
upload_stream_body(i, rem, owArg) ==
    IF i = "connector" /\ owArg = "omitted"
      THEN Step(rem, BytesIO, Error("TypeError"), 0, FALSE)
      ELSE Step(rem, BytesIO, NoErr, 0, TRUE)

\* upload_stream uploading from wherever the caller left the cursor
upload_stream_resume_noseek(i, rem, p, ow, s) ==
    LET up == sdk_upload_blob(rem, p, s, ow)
    IN  IF up.err # NoErr
          THEN Step(up.remote, up.stream, up.err, 1, FALSE)
          ELSE IF logger_debug(i) # NoErr
            THEN Step(up.remote, up.stream, logger_debug(i), 1, FALSE)
            ELSE Step(up.remote, close(up.stream), NoErr, 1, FALSE)

\* upload_stream after its yield, the with block having ended normally
upload_stream_resume(i, rem, p, ow, s) ==
    LET up == sdk_upload_blob(rem, p, seek(s, 0), ow)
    IN  IF up.err # NoErr
          THEN Step(up.remote, up.stream, up.err, 1, FALSE)
          ELSE IF logger_debug(i) # NoErr
            THEN Step(up.remote, up.stream, logger_debug(i), 1, FALSE)
            ELSE Step(up.remote, close(up.stream), NoErr, 1, FALSE)

\* upload_stream flushing in a finally clause, so also when the block raised
upload_stream_throw_flush(rem, p, ow, s, e) ==
    LET up == sdk_upload_blob(rem, p, seek(s, 0), ow)
    IN  Step(up.remote, close(up.stream), e, 1, FALSE)

\* upload_stream when the with block raised
upload_stream_throw(rem, p, ow, s, e) == Step(rem, s, e, 0, FALSE)

\* open up to its yield: the inner context manager is entered
open_body(i, rem, p, m) ==
    IF lower(m) = <<"r">> THEN download_stream_body(rem, p)
    ELSE IF lower(m) = <<"w">> THEN upload_stream_body(i, rem, "False")
    ELSE IF lower(m) = <<"o">> THEN upload_stream_body(i, rem, "True")
    ELSE IF i = "azure_blob_utils"
      THEN Step(rem, BytesIO, [type |-> "ValueError", arg |-> m], 0, FALSE)
      ELSE Step(rem, BytesIO, Error("RuntimeError"), 0, FALSE)

\* open with the overwrite flags of 'w' and 'o' exchanged
open_resume_swapped(i, rem, p, m, s) ==
    IF lower(m) = <<"r">> THEN download_stream_resume(i, rem, s)
    ELSE IF lower(m) = <<"w">> THEN upload_stream_resume(i, rem, p, TRUE, s)
    ELSE upload_stream_resume(i, rem, p, FALSE, s)

\* open after its yield: the inner with statement exits normally
open_resume(i, rem, p, m, s) ==
    IF lower(m) = <<"r">> THEN download_stream_resume(i, rem, s)
    ELSE IF lower(m) = <<"w">> THEN upload_stream_resume(i, rem, p, FALSE, s)
    ELSE upload_stream_resume(i, rem, p, TRUE, s)

\* open when the with block raised: the inner with statement exits with it
open_throw(rem, p, m, s, e) ==
    IF lower(m) = <<"r">> THEN download_stream_throw(rem, s, e)
    ELSE IF lower(m) = <<"w">> THEN upload_stream_throw(rem, p, FALSE, s, e)
    ELSE upload_stream_throw(rem, p, TRUE, s, e)

\* download_blob(blob_path, dest_path): the package opens the destination
\* before the download is requested, the top-level connector after
download_blob_run(i, rem, fs, p, d) ==
    IF i = "azure_blob_utils"
      THEN IF rem[p].exists
             THEN [files |-> [fs EXCEPT ![d] = Stored(rem[p].data)],
                   err |-> NoErr, net |-> 1]
             ELSE [files |-> [fs EXCEPT ![d] = Stored(<<>>)],
                   err |-> Error("ResourceNotFoundError"), net |-> 1]
      ELSE IF rem[p].exists
             THEN [files |-> [fs EXCEPT ![d] = Stored(rem[p].data)],
                   err |-> NoErr, net |-> 1]
             ELSE [files |-> fs, err |-> Error("ResourceNotFoundError"), net |-> 1]

\* upload_blob(source_path, blob_path[, overwrite]): the top-level connector
\* takes no overwrite and calls _upload without it
upload_blob_run(i, rem, fs, src, p, owArg) ==
    IF i = "azure_blob_utils"
      THEN IF ~fs[src].exists
             THEN [remote |-> rem, err |-> Error("FileNotFoundError"), net |-> 0]
             ELSE LET up == sdk_upload_blob(rem, p,
                               [BytesIO EXCEPT !.buf = fs[src].data],
                               owArg = "True")
                  IN  [remote |-> up.remote, err |-> up.err, net |-> 1]
      ELSE IF owArg # "omitted"
             THEN [remote |-> rem, err |-> Error("TypeError"), net |-> 0]
             ELSE IF ~fs[src].exists
               THEN [remote |-> rem, err |-> Error("FileNotFoundError"), net |-> 0]
               ELSE [remote |-> rem, err |-> Error("TypeError"), net |-> 0]

\* ---------------------------------------------------------------- state
VARIABLES
    impl,       \* the module the connector class was imported from
    remote,     \* the container: blob path -> blob
    files,      \* the local file system: path -> file
    pc,         \* "idle", or "scope" while the caller's with block runs
    op,         \* the operation running, or the last one run
    blob_path,  \* its blob_path argument
    mode,       \* its mode argument (open)
    overwrite,  \* its overwrite argument (upload_stream, upload_blob)
    stream,     \* the BytesIO of the operation
    err,        \* the exception the operation ended with
    exit,       \* how the caller left the with block
    netCalls,   \* requests the operation sent to the storage service
    remote0,    \* the container when the operation was called
    left        \* the cursor position at which the caller left the with block

vars == <<impl, remote, files, pc, op, blob_path, mode, overwrite, stream,
          err, exit, netCalls, remote0, left>>

EmptyContainer == [p \in BlobPaths |-> Missing]

InitCommon ==
    /\ impl \in Impls
    /\ remote = EmptyContainer
    /\ remote0 = EmptyContainer
    /\ pc = "idle"
    /\ op = "none"
    /\ blob_path = "a.csv"
    /\ mode = <<>>
    /\ overwrite = FALSE
    /\ stream = BytesIO
    /\ err = NoErr
    /\ exit = "none"
    /\ netCalls = 0
    /\ left = 0

Init == InitCommon /\ files = [f \in LocalPaths |-> Missing]

InitAll == InitCommon /\ files \in [LocalPaths -> {Missing} \cup {Stored(d) : d \in Data}]

\* the scope is one the caller writes into
Uploading == op = "upload_stream" \/ (op = "open" /\ lower(mode) \in {<<"w">>, <<"o">>})

Downloading == op = "download_stream" \/ (op = "open" /\ lower(mode) = <<"r">>)

\* contextmanager.__enter__: the generator runs to its yield
Enter(name, p, m, ow, o) ==
    /\ pc = "idle"
    /\ op' = name
    /\ blob_path' = p
    /\ mode' = m
    /\ overwrite' = ow
    /\ remote0' = remote
    /\ remote' = o.remote
    /\ stream' = o.stream
    /\ err' = o.err
    /\ netCalls' = o.net
    /\ exit' = "none"
    /\ pc' = IF o.yielded THEN "scope" ELSE "idle"
    /\ left' = 0
    /\ UNCHANGED <<impl, files>>

\* contextmanager.__exit__: the generator is resumed, or the exception thrown in
Leave(how, o) ==
    /\ pc = "scope"
    /\ pc' = "idle"
    /\ exit' = how
    /\ remote' = o.remote
    /\ stream' = o.stream
    /\ err' = o.err
    /\ netCalls' = netCalls + o.net
    /\ left' = stream.pos
    /\ UNCHANGED <<impl, files, op, blob_path, mode, overwrite, remote0>>

download_stream(p) ==
    Enter("download_stream", p, <<>>, FALSE, download_stream_body(remote, p))

upload_stream(p, owArg) ==
    Enter("upload_stream", p, <<>>, owArg = "True",
          upload_stream_body(impl, remote, owArg))

open(p, m) == Enter("open", p, m, FALSE, open_body(impl, remote, p, m))

\* the caller's with block: writes, seeks, then ends or raises
caller_write(b) ==
    /\ pc = "scope"
    /\ Uploading
    /\ stream.pos < MaxLen
    /\ stream' = write(stream, b)
    /\ UNCHANGED <<impl, remote, files, pc, op, blob_path, mode, overwrite,
                   err, exit, netCalls, remote0, left>>

caller_seek(k) ==
    /\ pc = "scope"
    /\ k \in 0..Len(stream.buf)
    /\ k # stream.pos
    /\ stream' = seek(stream, k)
    /\ UNCHANGED <<impl, remote, files, pc, op, blob_path, mode, overwrite,
                   err, exit, netCalls, remote0, left>>

exit_clean ==
    Leave("clean",
          CASE op = "download_stream" -> download_stream_resume(impl, remote, stream)
            [] op = "upload_stream" ->
                 upload_stream_resume(impl, remote, blob_path, overwrite, stream)
            [] OTHER -> open_resume(impl, remote, blob_path, mode, stream))

exit_raise ==
    Leave("raised",
          CASE op = "download_stream" ->
                 download_stream_throw(remote, stream, Error("CallerError"))
            [] op = "upload_stream" ->
                 upload_stream_throw(remote, blob_path, overwrite, stream,
                                     Error("CallerError"))
            [] OTHER -> open_throw(remote, blob_path, mode, stream,
                                   Error("CallerError")))

download_blob(p, d) ==
    LET o == download_blob_run(impl, remote, files, p, d)
    IN  /\ pc = "idle"
        /\ op' = "download_blob"
        /\ blob_path' = p
        /\ files' = o.files
        /\ err' = o.err
        /\ netCalls' = o.net
        /\ remote0' = remote
        /\ mode' = <<>>
        /\ overwrite' = FALSE
        /\ stream' = BytesIO
        /\ exit' = "none"
        /\ left' = 0
        /\ UNCHANGED <<impl, remote, pc>>

upload_blob(src, p, owArg) ==
    LET o == upload_blob_run(impl, remote, files, src, p, owArg)
    IN  /\ pc = "idle"
        /\ op' = "upload_blob"
        /\ blob_path' = p
        /\ remote' = o.remote
        /\ err' = o.err
        /\ netCalls' = o.net
        /\ remote0' = remote
        /\ mode' = <<>>
        /\ overwrite' = (owArg = "True")
        /\ stream' = BytesIO
        /\ exit' = "none"
        /\ left' = 0
        /\ UNCHANGED <<impl, files, pc>>

\* the scoped stream operations
Next ==
    \/ \E p \in BlobPaths : download_stream(p)
    \/ \E p \in BlobPaths, a \in OwArgs : upload_stream(p, a)
    \/ \E p \in BlobPaths, m \in Modes : open(p, m)
    \/ \E b \in Byte : caller_write(b)
    \/ \E k \in 0..MaxLen : caller_seek(k)
    \/ exit_clean
    \/ exit_raise

Spec == Init /\ [][Next]_vars

\* the whole connector, file transfers included
NextAll ==
    \/ Next
    \/ \E p \in BlobPaths, d \in LocalPaths : download_blob(p, d)
    \/ \E f \in LocalPaths, p \in BlobPaths, a \in OwArgs : upload_blob(f, p, a)

SpecAll == InitAll /\ [][NextAll]_vars

\* ------------------------------------------------------------- properties
Accepted == err.type # "ResourceExistsError"

\* C1: when the caller's code raises inside an upload_stream or open w/o
\* scope, nothing was sent to the storage service and the container is as it
\* was when the operation was called; an upload request is sent only after a
\* clean exit from the scope.
C1_NoUploadWhenScopeRaises ==
    /\ (Uploading /\ (pc = "scope" \/ exit = "raised"))
         => (remote = remote0 /\ netCalls = 0)
    /\ (Uploading /\ netCalls > 0) => (pc = "idle" /\ exit = "clean")

C1_Witness ==
    /\ pc = "idle" /\ Uploading /\ exit = "raised"
    /\ Len(stream.buf) = MaxLen
    /\ remote[blob_path].exists

\* C2: whichever way a scoped stream operation ends (clean exit, the caller
\* raising, the upload refused), its stream has been closed exactly once.
C2_ClosedExactlyOnce ==
    (pc = "idle" /\ exit \in {"clean", "raised"}) => stream.closes = 1

\* C3: an upload (upload_blob from an existing file, upload_stream after a
\* clean exit) to a blob that exists fails with ResourceExistsError and
\* leaves the container unchanged when overwrite is false, and returns
\* without error with the blob replaced by the uploaded content when
\* overwrite is true.
C3_OverwriteGuard ==
    LET guarded ==
            /\ remote0[blob_path].exists
            /\ IF overwrite
                 THEN err = NoErr
                 ELSE err.type = "ResourceExistsError" /\ remote = remote0
    IN  /\ (pc = "idle" /\ op = "upload_stream" /\ exit = "clean"
               /\ remote0[blob_path].exists)
             => (guarded /\ (overwrite => remote[blob_path] = Stored(stream.buf)))
        /\ (pc = "idle" /\ op = "upload_blob" /\ remote0[blob_path].exists
               /\ \A f \in LocalPaths : files[f].exists)
             => (guarded /\ (overwrite =>
                    \E f \in LocalPaths : remote[blob_path] = Stored(files[f].data)))

\* C4: after the bytes B were written in an upload_stream scope on a blob
\* path, the scope was left cleanly and the upload was accepted, a
\* download_stream of that path hands the caller a stream whose content is
\* exactly B.
C4_RoundTrip ==
    [][(/\ pc = "idle" /\ Uploading /\ exit = "clean" /\ Accepted
        /\ pc' = "scope" /\ Downloading' /\ blob_path' = blob_path)
          => stream'.buf = stream.buf]_vars

C4_Witness ==
    /\ pc = "scope" /\ Downloading
    /\ stream.buf = <<1, 0>>
    /\ remote0[blob_path] = Stored(<<1, 0>>)

\* C5: open with any mode other than exactly 'r', 'w', 'o' fails with a
\* ValueError naming the mode, and sends nothing to the storage service.
C5_InvalidModeRejected ==
    (op = "open" /\ mode \notin {<<"r">>, <<"w">>, <<"o">>})
      => (/\ pc = "idle"
          /\ exit = "none"
          /\ err.type = "ValueError"
          /\ err.arg = mode
          /\ netCalls = 0)

SameOutcome(o) == remote' = o.remote /\ stream' = o.stream /\ err' = o.err

SameEntry(o) == SameOutcome(o) /\ netCalls' = o.net /\ (pc' = "scope") = o.yielded

SameExit(o) == SameOutcome(o) /\ netCalls' = netCalls + o.net /\ pc' = "idle"

C6_SameAsDirect ==
    /\ (pc = "idle" /\ op' = "open" /\ lower(mode') = <<"r">>)
         => SameEntry(download_stream_body(remote, blob_path'))
    /\ (pc = "idle" /\ op' = "open" /\ lower(mode') = <<"w">>)
         => SameEntry(upload_stream_body(impl, remote, "False"))
    /\ (pc = "idle" /\ op' = "open" /\ lower(mode') = <<"o">>)
         => SameEntry(upload_stream_body(impl, remote, "True"))
    /\ (pc = "scope" /\ op = "open" /\ exit' = "clean" /\ lower(mode) = <<"r">>)
         => SameExit(download_stream_resume(impl, remote, stream))
    /\ (pc = "scope" /\ op = "open" /\ exit' = "clean" /\ lower(mode) = <<"w">>)
         => SameExit(upload_stream_resume(impl, remote, blob_path, FALSE, stream))
    /\ (pc = "scope" /\ op = "open" /\ exit' = "clean" /\ lower(mode) = <<"o">>)
         => SameExit(upload_stream_resume(impl, remote, blob_path, TRUE, stream))
    /\ (pc = "scope" /\ op = "open" /\ exit' = "raised" /\ lower(mode) = <<"r">>)
         => SameExit(download_stream_throw(remote, stream, Error("CallerError")))
    /\ (pc = "scope" /\ op = "open" /\ exit' = "raised" /\ lower(mode) = <<"w">>)
         => SameExit(upload_stream_throw(remote, blob_path, FALSE, stream,
                                         Error("CallerError")))
    /\ (pc = "scope" /\ op = "open" /\ exit' = "raised" /\ lower(mode) = <<"o">>)
         => SameExit(upload_stream_throw(remote, blob_path, TRUE, stream,
                                         Error("CallerError")))

\* C6: each step of open(p, 'r'), open(p, 'w'), open(p, 'o') (entering the
\* scope, leaving it cleanly, leaving it by an exception) has the effect on
\* the container, the stream, the error and the requests sent that the same
\* step of download_stream(p), upload_stream(p, False),
\* upload_stream(p, True) has from the same state.
C6_ModeDispatch == [][C6_SameAsDirect]_vars

C6_Witness ==
    /\ pc = "idle" /\ op = "open" /\ mode = <<"w">> /\ exit = "clean"
    /\ err.type = "ResourceExistsError"
    /\ remote = remote0
    /\ stream.buf # remote[blob_path].data

\* C7: download_blob of a blob that does not exist fails with
\* ResourceNotFoundError and leaves every local file as it was.
C7_MissingBlobLeavesFiles ==
    [][(pc = "idle" /\ op' = "download_blob" /\ ~remote[blob_path'].exists)
          => (err'.type = "ResourceNotFoundError" /\ files' = files)]_vars

\* C8: after a clean exit from an upload scope whose upload was accepted, the
\* blob holds the whole content of the stream, wherever in the stream the
\* caller left the cursor.
C8_WholeBufferUploaded ==
    (pc = "idle" /\ Uploading /\ exit = "clean" /\ Accepted)
      => remote[blob_path] = Stored(stream.buf)

C8_Witness ==
    /\ pc = "idle" /\ Uploading /\ exit = "clean" /\ Accepted
    /\ Len(stream.buf) = 2
    /\ left = 1
    /\ remote[blob_path] = Stored(stream.buf)

\* C9: a scope left without raising, whose download or upload the storage
\* service accepted, ends without an error and with every step after the
\* yield run, the close included.
C9_CleanExitRaisesNothing ==
    (pc = "idle" /\ exit = "clean" /\ Accepted)
      => (err = NoErr /\ stream.closes > 0)

\* C10: when download_stream or open 'r' hands the stream to the caller, the
\* cursor is at the end of the downloaded content, so that reading from the
\* cursor returns no bytes.
C10_CursorAtEndOnDownload ==
    [][(pc = "idle" /\ pc' = "scope" /\ Downloading')
          => (/\ stream'.buf = remote[blob_path'].data
              /\ stream'.pos = Len(remote[blob_path'].data)
              /\ Rest(stream') = <<>>)]_vars

C10_Witness ==
    /\ pc = "scope" /\ Downloading
    /\ Len(stream.buf) = MaxLen
    /\ stream.pos = Len(stream.buf)

====
